---- MODULE Spec2Model ----
(***************************************************************************)
(* Model of movie_toolkit.py: the folder batch driver                      *)
(* extract_frames_by_interval_in_folder and the frame sampler              *)
(* extract_frames_by_interval, with format_time.                           *)
(*                                                                         *)
(* Python floats are IEEE-754 binary64.  The sampler accumulates           *)
(* current_time_sec in floats, so the arithmetic is modelled bit-exactly:  *)
(* a float is a 53-bit significand (a natural number kept as a sequence of *)
(* 15-bit limbs, least significant first) and a binary exponent; + * / are *)
(* rounded to nearest, ties to even.                                       *)
(***************************************************************************)
EXTENDS Integers, Sequences, FiniteSets, TLC

----------------------------------------------------------------------------
(* Natural numbers of arbitrary size: little-endian limbs, no high zeros.  *)
(* The arithmetic is written as functions, so that every argument is a     *)
(* value computed once.                                                    *)

BASE == 32768
LimbBits == 15
Precision == 53

BigNat == Seq(0..(BASE - 1))

\* 2^n for 0 <= n <= 30
Pow2(n) ==
  <<1, 2, 4, 8, 16, 32, 64, 128, 256, 512, 1024, 2048, 4096, 8192, 16384,
    32768, 65536, 131072, 262144, 524288, 1048576, 2097152, 4194304,
    8388608, 16777216, 33554432, 67108864, 134217728, 268435456,
    536870912, 1073741824>>[n + 1]

Limb(a, i) == IF i <= Len(a) THEN a[i] ELSE 0

Trim[a \in BigNat] ==
  IF a = <<>> THEN <<>>
  ELSE IF a[Len(a)] = 0 THEN Trim[SubSeq(a, 1, Len(a) - 1)] ELSE a

FromInt[n \in Nat] ==
  IF n = 0 THEN <<>> ELSE <<n % BASE>> \o FromInt[n \div BASE]

ToIntFrom[a \in BigNat, i \in Nat] ==
  IF i > Len(a) THEN 0 ELSE a[i] + BASE * ToIntFrom[a, i + 1]

ToInt[a \in BigNat] == ToIntFrom[a, 1]

AddFrom[a \in BigNat, b \in BigNat, i \in Nat, c \in Nat] ==
  IF i > Len(a) /\ i > Len(b)
  THEN (IF c = 0 THEN <<>> ELSE <<c>>)
  ELSE LET s == Limb(a, i) + Limb(b, i) + c
       IN  <<s % BASE>> \o AddFrom[a, b, i + 1, s \div BASE]

BAdd[a \in BigNat, b \in BigNat] == AddFrom[a, b, 1, 0]

SubFrom[a \in BigNat, b \in BigNat, i \in Nat, c \in Nat] ==
  IF i > Len(a) THEN <<>>
  ELSE LET s == Limb(a, i) - Limb(b, i) - c
       IN  IF s < 0 THEN <<s + BASE>> \o SubFrom[a, b, i + 1, 1]
                    ELSE <<s>> \o SubFrom[a, b, i + 1, 0]

\* a - b for a >= b
BSub[a \in BigNat, b \in BigNat] == Trim[SubFrom[a, b, 1, 0]]

CmpFrom[a \in BigNat, b \in BigNat, i \in Nat] ==
  IF i = 0 THEN 0
  ELSE IF a[i] < b[i] THEN -1
  ELSE IF a[i] > b[i] THEN 1
  ELSE CmpFrom[a, b, i - 1]

\* -1, 0, 1 as a < b, a = b, a > b
BCmp[a \in BigNat, b \in BigNat] ==
  IF Len(a) < Len(b) THEN -1
  ELSE IF Len(a) > Len(b) THEN 1
  ELSE CmpFrom[a, b, Len(a)]

MulSmallFrom[a \in BigNat, k \in Nat, i \in Nat, c \in Nat] ==
  IF i > Len(a) THEN (IF c = 0 THEN <<>> ELSE <<c>>)
  ELSE LET s == a[i] * k + c
       IN  <<s % BASE>> \o MulSmallFrom[a, k, i + 1, s \div BASE]

\* a * k for 0 <= k < BASE
BMulSmall[a \in BigNat, k \in Nat] ==
  IF k = 0 THEN <<>> ELSE MulSmallFrom[a, k, 1, 0]

Zeros(n) == [i \in 1..n |-> 0]

ShiftLimbs[a \in BigNat, n \in Nat] ==
  IF a = <<>> THEN <<>> ELSE Zeros(n) \o a

MulFrom[a \in BigNat, b \in BigNat, i \in Nat] ==
  IF i > Len(b) THEN <<>>
  ELSE BAdd[ShiftLimbs[BMulSmall[a, b[i]], i - 1], MulFrom[a, b, i + 1]]

BMul[a \in BigNat, b \in BigNat] == MulFrom[a, b, 1]

\* quotient and remainder of a by 0 < k < BASE, from the high limb down
DivSmallFrom[a \in BigNat, k \in Nat, i \in Nat, r \in Nat] ==
  IF i = 0 THEN [q |-> <<>>, r |-> r]
  ELSE LET cur  == r * BASE + a[i]
           rest == DivSmallFrom[a, k, i - 1, cur % k]
       IN  [q |-> rest.q \o <<cur \div k>>, r |-> rest.r]

BDivSmall[a \in BigNat, k \in Nat] == Trim[DivSmallFrom[a, k, Len(a), 0].q]
BModSmall[a \in BigNat, k \in Nat] == DivSmallFrom[a, k, Len(a), 0].r

\* a * 2^n
BShl[a \in BigNat, n \in Nat] ==
  ShiftLimbs[BMulSmall[a, Pow2(n % LimbBits)], n \div LimbBits]

\* floor(a / 2^n)
BShr[a \in BigNat, n \in Nat] ==
  IF n \div LimbBits >= Len(a) THEN <<>>
  ELSE BDivSmall[SubSeq(a, (n \div LimbBits) + 1, Len(a)),
                 Pow2(n % LimbBits)]

\* a mod 2^n
BLow[a \in BigNat, n \in Nat] == BSub[a, BShl[BShr[a, n], n]]

IntBitLen[n \in Nat] == IF n = 0 THEN 0 ELSE 1 + IntBitLen[n \div 2]

BBitLen[a \in BigNat] ==
  IF a = <<>> THEN 0 ELSE LimbBits * (Len(a) - 1) + IntBitLen[a[Len(a)]]

BOdd(a) == a # <<>> /\ a[1] % 2 = 1

\* bit i of a, bit 0 the lowest
BBit(a, i) == (Limb(a, (i \div LimbBits) + 1) \div Pow2(i % LimbBits)) % 2

\* quotient and remainder so far, and the number of bits of n still to do
DivState == [q : BigNat, r : BigNat, hi : Int]

\* one step of long division of n by d: bit st.hi - 1 of n
DivBit[n \in BigNat, d \in BigNat, st \in DivState] ==
  LET bit == IF BBit(n, st.hi - 1) = 1 THEN <<1>> ELSE <<>>
      r2  == BAdd[BShl[st.r, 1], bit]
      ge  == BCmp[r2, d] >= 0
  IN  [q  |-> IF ge THEN BAdd[BShl[st.q, 1], <<1>>] ELSE BShl[st.q, 1],
       r  |-> IF ge THEN BSub[r2, d] ELSE r2,
       hi |-> st.hi - 1]

\* long division from bit st.hi of n down to bit lo + 1
DivBits[n \in BigNat, d \in BigNat, lo \in Nat, st \in DivState] ==
  IF st.hi <= lo THEN st ELSE DivBits[n, d, lo, DivBit[n, d, st]]

\* the same in runs of DivRun bits, down to bit 1
DivRun == 8

DivRuns[n \in BigNat, d \in BigNat, st \in DivState] ==
  IF st.hi <= 0 THEN st
  ELSE LET lo == IF st.hi > DivRun THEN st.hi - DivRun ELSE 0
       IN  DivRuns[n, d, DivBits[n, d, lo, st]]

\* q = floor(n / d), r = n - q * d for d > 0.  The bits of n above the
\* length of d are less than d, so they start as the remainder.
BDivMod[n \in BigNat, d \in BigNat] ==
  LET top == BBitLen[n] - (BBitLen[d] - 1)
  IN  IF top <= 0 THEN [q |-> <<>>, r |-> n, hi |-> 0]
      ELSE DivRuns[n, d, [q |-> <<>>, r |-> BShr[n, top], hi |-> top]]

----------------------------------------------------------------------------
(* binary64 values >= 0: the number m * 2^e with m = 0 or 2^52 <= m < 2^53 *)

Float == [m : BigNat, e : Int]

ZeroF == [m |-> <<>>, e |-> 0]

\* the 53 leading bits q of n, of which s bits are cut, rounded up or not
RoundCut[q \in BigNat, e \in Int, up \in BOOLEAN] ==
  LET q2 == IF up THEN BAdd[q, <<1>>] ELSE q
  IN  IF BBitLen[q2] > Precision
      THEN [m |-> BShr[q2, 1], e |-> e + 1]
      ELSE [m |-> q2, e |-> e]

\* n * 2^e (plus a nonzero tail below the last bit of n when sticky)
\* rounded to nearest, ties to even
RoundF[n \in BigNat, e \in Int, sticky \in BOOLEAN] ==
  LET L == BBitLen[n] IN
  IF n = <<>> THEN ZeroF
  ELSE IF L <= Precision
  THEN [m |-> BShl[n, Precision - L], e |-> e - (Precision - L)]
  ELSE LET s == L - Precision
           q == BShr[n, s]
           c == BCmp[BLow[n, s], BShl[<<1>>, s - 1]]
       IN  RoundCut[q, e + s, c > 0 \/ (c = 0 /\ (sticky \/ BOdd(q)))]

\* float(n) for an int n >= 0
FromIntF[n \in Nat] == RoundF[FromInt[n], 0, FALSE]

\* x + y
AddF[x \in Float, y \in Float] ==
  IF x.m = <<>> THEN y
  ELSE IF y.m = <<>> THEN x
  ELSE LET hi == IF x.e >= y.e THEN x ELSE y
           lo == IF x.e >= y.e THEN y ELSE x
       IN  IF hi.e - lo.e > Precision + 2 THEN hi
           ELSE RoundF[BAdd[BShl[hi.m, hi.e - lo.e], lo.m], lo.e, FALSE]

\* x * y
MulF[x \in Float, y \in Float] ==
  IF x.m = <<>> \/ y.m = <<>> THEN ZeroF
  ELSE RoundF[BMul[x.m, y.m], x.e + y.e, FALSE]

\* x / y for y > 0
DivF[x \in Float, y \in Float] ==
  IF x.m = <<>> THEN ZeroF
  ELSE LET d == BDivMod[BShl[x.m, Precision + 2], y.m]
       IN  RoundF[d.q, x.e - y.e - (Precision + 2), d.r # <<>>]

\* x <= y
LeF[x \in Float, y \in Float] ==
  IF x.m = <<>> THEN TRUE
  ELSE IF y.m = <<>> THEN FALSE
  ELSE IF x.e # y.e THEN x.e < y.e
  ELSE BCmp[x.m, y.m] <= 0

\* x < y
LtF[x \in Float, y \in Float] == ~LeF[y, x]

\* floor(x) as a natural number
FloorBig[x \in Float] ==
  IF x.e >= 0 THEN BShl[x.m, x.e] ELSE BShr[x.m, -x.e]

\* int(x), math.floor(x)
IntF[x \in Float] == ToInt[FloorBig[x]]

\* x - int(x): exact in binary64
FracF[x \in Float] ==
  IF x.e >= 0 THEN ZeroF ELSE RoundF[BLow[x.m, -x.e], x.e, FALSE]

\* x % k for an int 0 < k < BASE: Python's float % is fmod, which is exact
ModF[x \in Float, k \in Nat] ==
  LET r == FromInt[BModSmall[FloorBig[x], k]]
  IN  IF x.e >= 0 THEN RoundF[r, 0, FALSE]
      ELSE RoundF[BAdd[BShl[r, -x.e], BLow[x.m, -x.e]], x.e, FALSE]

\* x // k for an int 0 < k < BASE: the exact floor of the quotient
FloorDivF[x \in Float, k \in Nat] ==
  RoundF[BDivSmall[FloorBig[x], k], 0, FALSE]

----------------------------------------------------------------------------
(* format_time *)

Pad(n, width) ==
  LET d == ToString(n)
  IN  IF width = 3 /\ n < 10 THEN "00" \o d
      ELSE IF (width = 3 /\ n < 100) \/ (width = 2 /\ n < 10) THEN "0" \o d
      ELSE d

format_time(seconds) ==
  LET h  == IntF[FloorDivF[seconds, 3600]]
      m  == IntF[FloorDivF[ModF[seconds, 3600], 60]]
      s  == IntF[ModF[seconds, 60]]
      ms == IntF[MulF[FracF[seconds], FromIntF[1000]]]
  IN  Pad(h, 2) \o "h" \o Pad(m, 2) \o "m" \o Pad(s, 2) \o "s"
        \o Pad(ms, 3) \o "ms"

----------------------------------------------------------------------------
(* The inputs: a folder of entries, an interval and the output path.       *)

MaxFrames == 3
MaxEntries == 2

\* a ratio p/q of small ints as the float Python computes for p / q
RatF(r) == DivF[FromIntF[r[1]], FromIntF[r[2]]]

\* frame rates cap.get(CAP_PROP_FPS) reports, as ratios
Rates == {<<0, 1>>, <<1, 1>>, <<2, 1>>, <<49, 1>>}

\* interval arguments (seconds), as ratios; all positive
Intervals == {<<1, 49>>, <<1, 2>>, <<1, 1>>, <<5, 1>>}

\* the frames of a video that fail to decode: none, the first, all
BadChoices(total) == {{}, {0} \cap (0..(total - 1)), 0..(total - 1)}

NotFileEntry == [kind |-> "dir", rate |-> <<0, 1>>, total |-> 0, bad |-> {}]
UnopenableEntry ==
  [kind |-> "unopenable", rate |-> <<0, 1>>, total |-> 0, bad |-> {}]
VideoEntry(rate, total, bad) ==
  [kind |-> "video", rate |-> rate, total |-> total, bad |-> bad]

AllVideos ==
  { v \in [kind : {"video"}, rate : Rates, total : 0..MaxFrames,
           bad : SUBSET (0..(MaxFrames - 1))] : v.bad \in BadChoices(v.total) }
    \cup {NotFileEntry, UnopenableEntry}

\* entries of the folders with several entries
BatchVideos ==
  {NotFileEntry, UnopenableEntry, VideoEntry(<<0, 1>>, 1, {}),
   VideoEntry(<<1, 1>>, 2, {}), VideoEntry(<<2, 1>>, 3, {0})}

RECURSIVE SeqsUpTo(_, _)
SeqsUpTo(S, n) ==
  IF n = 0 THEN {<<>>}
  ELSE LET shorter == SeqsUpTo(S, n - 1)
       IN  shorter \cup {Append(q, x) : q \in shorter, x \in S}

Folders ==
  SeqsUpTo(BatchVideos, MaxEntries) \cup {<<v>> : v \in AllVideos}

\* the state of output_folder_path before the call
OutStates == {"absent", "dir", "rodir", "file"}

OutputFolder == "out"

\* os.path.basename of the idx-th entry of the folder
Basename(idx) == "v" \o ToString(idx)

----------------------------------------------------------------------------
(* State *)

VARIABLES
  folder_exists,    \* os.path.exists(input_folder_path)
  entries,          \* glob.glob(input_folder_abspath + "/*")
  interval,         \* the interval argument, a float
  out_dir,          \* what output_folder_path names: absent, dir, rodir, file
  created,          \* a mkdir of this run made the output folder
  pc,               \* position in the batch driver and the sampler
  idx,              \* the entry the for loop is at (0 before the first)
  calls,            \* the arguments of each invocation of the sampler
  caught,           \* the entries whose invocation raised and was caught
  outcome,          \* how the current invocation ended, "running" until then
  cap,              \* the VideoCapture: none, open, released
  releases,         \* number of cap.release() calls of this invocation
  fps, total_frames, duration_sec, current_time_sec, saved_count,
  attempts,         \* frame numbers sought and read by this invocation
  last_time,        \* current_time_sec of the latest seek
  read_fails,       \* reads of this invocation that returned ret = False
  past_end,         \* the loop hit target_frame_num >= total_frames
  wrote,            \* imwrite calls of this invocation that wrote the file
  names,            \* files of the output folder written by this invocation
  reported          \* the count logged by the summary, -1 before

locals ==
  <<outcome, cap, releases, fps, total_frames, duration_sec,
    current_time_sec, saved_count, attempts, last_time, read_fails,
    past_end, wrote, names, reported>>

inputs == <<folder_exists, entries, interval>>

outv == <<out_dir, created>>

vars == <<inputs, outv, pc, idx, calls, caught, locals>>

video == entries[idx]

----------------------------------------------------------------------------
(* extract_frames_by_interval: the expressions of the code *)

\* duration_sec = total_frames / fps if fps > 0 else 0
Duration(total, f) ==
  IF f.m # <<>> THEN DivF[FromIntF[total], f] ELSE ZeroF

FpsAlwaysValid(f) == FALSE

\* if fps == 0:
FpsInvalid(f) == f.m = <<>>

StartAtOne == RatF(<<1, 1>>)

\* current_time_sec = 0.0
StartTime == ZeroF

\* while current_time_sec <= duration_sec:
LoopCond(t, d) == LeF[t, d]

\* target_frame_num = math.floor(current_time_sec * fps)
TargetFrame(t, f) == IntF[MulF[t, f]]

\* if target_frame_num >= total_frames: break
PastEnd(target, total) == target >= total

BreakContinues == "s_loop"

\* where the break leaves the loop to
AfterBreak == "s_summary"

\* ret of cap.read() after cap.set(CAP_PROP_POS_FRAMES, target_frame_num)
ReadOk(v, target) == target \notin v.bad

FailTimeStuck(t, iv) == t

\* current_time_sec += interval, on the failed read
FailTime(t, iv) == AddF[t, iv]

\* continue
AfterReadFail == "s_loop"

\* current_time_sec += interval, after the save
NextTime(t, iv) == AddF[t, iv]

\* f"{os.path.basename(video_path)}_{timestamp_str}.jpg"
OutputFilename(base, t) == base \o "_" \o format_time(t) \o ".jpg"

\* whether cv2.imwrite writes the file: not into a folder that is read-only
ImwriteOk(out) == out = "dir"

\* saved_count += 1, whatever cv2.imwrite returned
SavedAfterWrite(count, ok) == count + 1

MkdirForgotten(out) == out

\* output_folder_path.mkdir(parents=True, exist_ok=True): the folder after it
Mkdir(out) == IF out = "absent" THEN "dir" ELSE out

\* mkdir raises FileExistsError when the path is a regular file
MkdirRaises(out) == out = "file"

ExceptPropagates == "abort"

\* except Exception as e: logger.error(...); then the finally clause
AfterExcept == "finally"

----------------------------------------------------------------------------
(* Init *)

Fresh ==
  /\ outcome = "none"
  /\ cap = "none"
  /\ releases = 0
  /\ fps = ZeroF
  /\ total_frames = 0
  /\ duration_sec = ZeroF
  /\ current_time_sec = ZeroF
  /\ saved_count = 0
  /\ attempts = <<>>
  /\ last_time = ZeroF
  /\ read_fails = 0
  /\ past_end = FALSE
  /\ wrote = 0
  /\ names = {}
  /\ reported = -1

Init ==
  /\ \/ folder_exists = TRUE /\ entries \in Folders
     \/ folder_exists = FALSE /\ entries = <<>>
  /\ \E r \in Intervals : interval = RatF(r)
  /\ out_dir \in OutStates
  /\ created = FALSE
  /\ pc = "start"
  /\ idx = 0
  /\ calls = <<>>
  /\ caught = <<>>
  /\ Fresh

----------------------------------------------------------------------------
(* extract_frames_by_interval_in_folder *)

\* if not os.path.exists(input_folder_path): logger.fatal(...); return
FolderMissing ==
  /\ pc = "start"
  /\ ~folder_exists
  /\ pc' = "done"
  /\ UNCHANGED <<inputs, outv, idx, calls, caught, locals>>

FolderEnter ==
  /\ pc = "start"
  /\ folder_exists
  /\ pc' = "for"
  /\ UNCHANGED <<inputs, outv, idx, calls, caught, locals>>

\* the next entry of the for loop: the call of the sampler
ForCall ==
  /\ pc = "for"
  /\ idx < Len(entries)
  /\ idx' = idx + 1
  /\ calls' = Append(calls, [video_path |-> idx + 1,
                             output_folder_path |-> OutputFolder,
                             interval |-> interval])
  /\ outcome' = "running"
  /\ cap' = "none"
  /\ releases' = 0
  /\ fps' = ZeroF
  /\ total_frames' = 0
  /\ duration_sec' = ZeroF
  /\ current_time_sec' = ZeroF
  /\ saved_count' = 0
  /\ attempts' = <<>>
  /\ last_time' = ZeroF
  /\ read_fails' = 0
  /\ past_end' = FALSE
  /\ wrote' = 0
  /\ names' = {}
  /\ reported' = -1
  /\ pc' = "s_entry"
  /\ UNCHANGED <<inputs, outv, caught>>

ForEnd ==
  /\ pc = "for"
  /\ idx = Len(entries)
  /\ pc' = "done"
  /\ UNCHANGED <<inputs, outv, idx, calls, caught, locals>>

\* except Exception as e
Except ==
  /\ pc = "raised"
  /\ caught' = Append(caught, idx)
  /\ pc' = AfterExcept
  /\ UNCHANGED <<inputs, outv, idx, calls, locals>>

\* finally: logger.info(...)
Finally ==
  /\ pc = "finally"
  /\ pc' = "for"
  /\ UNCHANGED <<inputs, outv, idx, calls, caught, locals>>

----------------------------------------------------------------------------
(* extract_frames_by_interval *)

\* if not video_path.is_file(): return
NotAFile ==
  /\ pc = "s_entry"
  /\ video.kind = "dir"
  /\ outcome' = "notfile"
  /\ pc' = "finally"
  /\ UNCHANGED <<inputs, outv, idx, calls, caught, cap, releases, fps,
                 total_frames, duration_sec, current_time_sec, saved_count,
                 attempts, last_time, read_fails, past_end, wrote, names,
                 reported>>

\* cap = cv2.VideoCapture(...); if not cap.isOpened(): return
OpenFail ==
  /\ pc = "s_entry"
  /\ video.kind = "unopenable"
  /\ outcome' = "openfail"
  /\ pc' = "finally"
  /\ UNCHANGED <<inputs, outv, idx, calls, caught, cap, releases, fps,
                 total_frames, duration_sec, current_time_sec, saved_count,
                 attempts, last_time, read_fails, past_end, wrote, names,
                 reported>>

\* the capture opens; fps, total_frames and duration_sec are read
Open ==
  /\ pc = "s_entry"
  /\ video.kind = "video"
  /\ cap' = "open"
  /\ fps' = RatF(video.rate)
  /\ total_frames' = video.total
  /\ duration_sec' = Duration(video.total, RatF(video.rate))
  /\ pc' = "s_meta"
  /\ UNCHANGED <<inputs, outv, idx, calls, caught, outcome, releases,
                 current_time_sec, saved_count, attempts, last_time,
                 read_fails, past_end, wrote, names, reported>>

\* if fps == 0: cap.release(); return
InvalidFps ==
  /\ pc = "s_meta"
  /\ FpsInvalid(fps)
  /\ cap' = "released"
  /\ releases' = releases + 1
  /\ outcome' = "badfps"
  /\ pc' = "finally"
  /\ UNCHANGED <<inputs, outv, idx, calls, caught, fps, total_frames,
                 duration_sec, current_time_sec, saved_count, attempts,
                 last_time, read_fails, past_end, wrote, names, reported>>

\* the output folder is made; current_time_sec = 0.0; saved_count = 0
MkdirOk ==
  /\ pc = "s_meta"
  /\ ~FpsInvalid(fps)
  /\ ~MkdirRaises(out_dir)
  /\ out_dir' = Mkdir(out_dir)
  /\ created' = (created \/ out_dir' # out_dir)
  /\ current_time_sec' = StartTime
  /\ saved_count' = 0
  /\ pc' = "s_loop"
  /\ UNCHANGED <<inputs, idx, calls, caught, outcome, cap, releases, fps,
                 total_frames, duration_sec, attempts, last_time, read_fails,
                 past_end, wrote, names, reported>>

\* mkdir raises: the exception leaves the function
MkdirRaise ==
  /\ pc = "s_meta"
  /\ ~FpsInvalid(fps)
  /\ MkdirRaises(out_dir)
  /\ outcome' = "raised"
  /\ pc' = "raised"
  /\ UNCHANGED <<inputs, outv, idx, calls, caught, cap, releases, fps,
                 total_frames, duration_sec, current_time_sec, saved_count,
                 attempts, last_time, read_fails, past_end, wrote, names,
                 reported>>

\* the while condition is false
LoopExit ==
  /\ pc = "s_loop"
  /\ ~LoopCond(current_time_sec, duration_sec)
  /\ pc' = "s_summary"
  /\ UNCHANGED <<inputs, outv, idx, calls, caught, locals>>

\* if target_frame_num >= total_frames: break
LoopBreak ==
  /\ pc = "s_loop"
  /\ LoopCond(current_time_sec, duration_sec)
  /\ PastEnd(TargetFrame(current_time_sec, fps), total_frames)
  /\ past_end' = TRUE
  /\ pc' = AfterBreak
  /\ UNCHANGED <<inputs, outv, idx, calls, caught, outcome, cap, releases,
                 fps, total_frames, duration_sec, current_time_sec,
                 saved_count, attempts, last_time, read_fails, wrote, names,
                 reported>>

\* the read fails: a warning, current_time_sec += interval, continue
LoopReadFail ==
  LET target == TargetFrame(current_time_sec, fps) IN
  /\ pc = "s_loop"
  /\ LoopCond(current_time_sec, duration_sec)
  /\ ~PastEnd(target, total_frames)
  /\ ~ReadOk(video, target)
  /\ attempts' = Append(attempts, target)
  /\ last_time' = current_time_sec
  /\ read_fails' = read_fails + 1
  /\ current_time_sec' = FailTime(current_time_sec, interval)
  /\ pc' = AfterReadFail
  /\ UNCHANGED <<inputs, outv, idx, calls, caught, outcome, cap, releases,
                 fps, total_frames, duration_sec, saved_count, past_end,
                 wrote, names, reported>>

\* the read succeeds: the frame is written under its timestamp's name
LoopSave ==
  LET target == TargetFrame(current_time_sec, fps)
      ok     == ImwriteOk(out_dir)
  IN
  /\ pc = "s_loop"
  /\ LoopCond(current_time_sec, duration_sec)
  /\ ~PastEnd(target, total_frames)
  /\ ReadOk(video, target)
  /\ attempts' = Append(attempts, target)
  /\ last_time' = current_time_sec
  /\ names' = IF ok
              THEN names \cup {OutputFilename(Basename(idx), current_time_sec)}
              ELSE names
  /\ wrote' = IF ok THEN wrote + 1 ELSE wrote
  /\ saved_count' = SavedAfterWrite(saved_count, ok)
  /\ current_time_sec' = NextTime(current_time_sec, interval)
  /\ UNCHANGED <<inputs, outv, pc, idx, calls, caught, outcome, cap,
                 releases, fps, total_frames, duration_sec, read_fails,
                 past_end, reported>>

\* the summary is logged; cap.release()
Summary ==
  /\ pc = "s_summary"
  /\ reported' = saved_count
  /\ cap' = "released"
  /\ releases' = releases + 1
  /\ outcome' = "done"
  /\ pc' = "finally"
  /\ UNCHANGED <<inputs, outv, idx, calls, caught, fps, total_frames,
                 duration_sec, current_time_sec, saved_count, attempts,
                 last_time, read_fails, past_end, wrote, names>>

----------------------------------------------------------------------------

Next ==
  \/ FolderMissing
  \/ FolderEnter
  \/ ForCall
  \/ ForEnd
  \/ Except
  \/ Finally
  \/ NotAFile
  \/ OpenFail
  \/ Open
  \/ InvalidFps
  \/ MkdirOk
  \/ MkdirRaise
  \/ LoopExit
  \/ LoopBreak
  \/ LoopReadFail
  \/ LoopSave
  \/ Summary

Spec == Init /\ [][Next]_vars

\* folders of one entry, for the runs of a single call of the sampler
InitOne ==
  /\ \/ folder_exists = TRUE /\ entries \in {<<v>> : v \in AllVideos}
     \/ folder_exists = FALSE /\ entries = <<>>
  /\ \E r \in Intervals : interval = RatF(r)
  /\ out_dir \in {"absent", "file"}
  /\ created = FALSE
  /\ pc = "start"
  /\ idx = 0
  /\ calls = <<>>
  /\ caught = <<>>
  /\ Fresh

\* the program runs on: one thread, no waiting
FairSpec == InitOne /\ [][Next]_vars /\ WF_vars(Next)

----------------------------------------------------------------------------
(* A second set of inputs: interval = 0.001 over two seconds of video,     *)
(* with short folders beside it.                                           *)

MsFolders ==
  {<<NotFileEntry>>, <<UnopenableEntry>>, <<VideoEntry(<<0, 1>>, 1, {})>>,
   <<VideoEntry(<<1, 1>>, 0, {})>>, <<VideoEntry(<<49, 1>>, 1, {0})>>,
   <<VideoEntry(<<1, 1>>, 2, {})>>}

InitMs ==
  /\ \/ folder_exists = TRUE /\ entries \in MsFolders
     \/ folder_exists = FALSE /\ entries = <<>>
  /\ interval = RatF(<<1, 1000>>)
  /\ out_dir \in {"dir", "file"}
  /\ created = FALSE
  /\ pc = "start"
  /\ idx = 0
  /\ calls = <<>>
  /\ caught = <<>>
  /\ Fresh

SpecMs == InitMs /\ [][Next]_vars

----------------------------------------------------------------------------
(* Exact arithmetic on the values the floats stand for, used to state the  *)
(* properties.                                                             *)

\* floor(x / y) of the exact values, y > 0
FloorRatio(x, y) ==
  IF x.m = <<>> THEN 0
  ELSE IF x.e >= y.e THEN ToInt[BDivMod[BShl[x.m, x.e - y.e], y.m].q]
  ELSE ToInt[BDivMod[x.m, BShl[y.m, y.e - x.e]].q]

\* x >= 0.001 of the exact value
GeMilli(x) ==
  /\ x.m # <<>>
  /\ \/ x.e >= 0
     \/ BCmp[BMulSmall[x.m, 1000], BShl[<<1>>, -x.e]] >= 0

\* a call of extract_frames_by_interval has opened the capture
Opened == cap # "none"

\* the call has returned or raised
Ended == outcome \notin {"none", "running"}

----------------------------------------------------------------------------
(* Properties *)

\* C1: the capture handle is released on every exit path of
\* extract_frames_by_interval, a raised exception included: once the call
\* has ended, or its exception is on its way to the caller, no capture is
\* left open.
C1_ReleasedOnEveryExit ==
  (Ended \/ pc \in {"raised", "finally"}) => cap # "open"

\* C2: the batch processor calls the sampler exactly once per directory
\* entry, in order, with the same output folder and interval, and an
\* exception of one call is caught and does not stop the later entries.
C2_OneCallPerEntry ==
  /\ pc # "abort"
  /\ Len(calls) = idx
  /\ \A i \in 1..Len(calls) :
       calls[i] = [video_path |-> i, output_folder_path |-> OutputFolder,
                   interval |-> interval]
  /\ \A i \in 1..Len(caught) : caught[i] \in 1..idx
  /\ (pc = "done" /\ folder_exists) => Len(calls) = Len(entries)

\* a batch that ran to its end although an entry before the last one raised
C2_Witness ==
  /\ pc = "done"
  /\ caught # <<>>
  /\ caught[1] < Len(entries)
  /\ Len(calls) = Len(entries)

\* C3: at the summary the saved count is floor(duration / interval) + 1,
\* less the failed reads, less the one timestamp whose target frame was at
\* or past total_frames.
C3_SavedCountFormula ==
  pc = "s_summary" =>
    saved_count = FloorRatio(duration_sec, interval) + 1 - read_fails
                    - (IF past_end THEN 1 ELSE 0)

\* C4: for an interval of at least one millisecond the sampled timestamps
\* increase and every saved frame has a filename of its own, so no save
\* overwrites an earlier one.
C4_DistinctFilenames ==
  GeMilli(interval) =>
    /\ Cardinality(names) = wrote
    /\ attempts # <<>> => LtF[last_time, current_time_sec]

\* C5 as stated: with interval >= duration a finished run has attempted
\* exactly one frame, frame 0 at timestamp 0.
C5_ExactlyOneAttempt ==
  (pc = "s_summary" /\ LeF[duration_sec, interval]) =>
    (attempts = <<0>> /\ last_time = ZeroF)

\* C5: for a video of at least one frame and an interval of at least the
\* duration, the first attempt is frame 0 at timestamp 0 and a finished
\* run has made it.  With interval > duration it is the only attempt.  With
\* interval = duration one more timestamp, t = interval, is within the
\* loop condition: it is attempted only when the rounded product
\* t * fps falls below total_frames, and then it is the last frame.  A
\* video of no frames has no attempt at all.
C5_AttemptsWhenIntervalCoversDuration ==
  /\ (Opened /\ fps # ZeroF /\ total_frames >= 1
        /\ LeF[duration_sec, interval]) =>
       /\ Len(attempts) <= 2
       /\ attempts # <<>> => attempts[1] = 0
       /\ Len(attempts) = 1 => last_time = ZeroF
       /\ Len(attempts) = 2 =>
            /\ interval = duration_sec
            /\ attempts[2] = total_frames - 1
            /\ last_time = interval
       /\ LtF[duration_sec, interval] => Len(attempts) <= 1
       /\ (pc = "s_summary" \/ outcome = "done") => attempts # <<>>
  /\ (Opened /\ total_frames = 0) => attempts = <<>>

\* a finished run over a video of several frames with interval > duration
C5_Witness ==
  /\ outcome = "done"
  /\ total_frames >= 2
  /\ LtF[duration_sec, interval]
  /\ attempts = <<0>>
  /\ last_time = ZeroF

\* C6: a video that opens and reports frame rate 0 has no frame sought
\* and no image written, and when the call returns the capture has been
\* released exactly once.
C6_ZeroFpsWritesNothing ==
  (Opened /\ fps = ZeroF) =>
    /\ attempts = <<>>
    /\ names = {}
    /\ wrote = 0
    /\ saved_count = 0
    /\ pc \in {"s_meta", "finally", "for", "done"}
    /\ pc # "s_meta" => (outcome = "badfps" /\ cap = "released"
                           /\ releases = 1)

\* a returned call on a video with frames and frame rate 0
C6_Witness ==
  /\ outcome = "badfps"
  /\ video.total >= 1
  /\ releases = 1
  /\ names = {}

\* C7: a failed read is skipped: nothing is saved for it, the timestamp
\* advances by one interval, and the loop goes on.
C7_ReadFailureSkipped ==
  [][(pc = "s_loop" /\ read_fails' = read_fails + 1) =>
       /\ saved_count' = saved_count
       /\ wrote' = wrote
       /\ names' = names
       /\ attempts' = Append(attempts, TargetFrame(current_time_sec, fps))
       /\ current_time_sec' = AddF[current_time_sec, interval]
       /\ pc' = "s_loop"
       /\ cap' = cap]_vars

\* a run whose first read failed and which saved a later frame
C7_Witness ==
  /\ pc = "s_summary"
  /\ read_fails >= 1
  /\ saved_count >= 1
  /\ ~ReadOk(video, attempts[1])

\* C8 as stated: after a call on an existing video file the output
\* directory exists, also when no frame was extracted.
C8_DirectoryAlwaysCreated ==
  (outcome \in {"openfail", "badfps", "done"} /\ saved_count = 0) =>
    out_dir \in {"dir", "rodir"}

\* C8: once a call has opened the video and found a non-zero frame rate,
\* the output directory exists from the start of the sampling loop on,
\* also when no frame is extracted.
C8_DirectoryCreatedBeforeSampling ==
  (pc \in {"s_loop", "s_summary"} \/ outcome = "done") =>
    out_dir \in {"dir", "rodir"}

\* a finished run that made the directory and extracted nothing
C8_Witness ==
  /\ outcome = "done"
  /\ created
  /\ out_dir = "dir"
  /\ saved_count = 0
  /\ wrote = 0

\* C9: for a positive interval the sampling loop terminates: a call that
\* has entered the loop reaches its summary and releases the capture.
C9_LoopTerminates ==
  (pc = "s_loop") ~> (outcome = "done" /\ cap = "released")

\* a finished run of several iterations, failed reads among them
C9_Witness ==
  /\ outcome = "done"
  /\ cap = "released"
  /\ Len(attempts) >= 3
  /\ read_fails >= 1

\* C10: the saved count, and the count the summary reports, is the number
\* of images written to disk.
C10_CountIsImagesWritten ==
  /\ saved_count = wrote
  /\ reported >= 0 => reported = wrote

====
